---- MODULE Spec2Model ----
(***************************************************************************)
(* A model of jx-codes/filter-lib: the execution pipeline of               *)
(* src/src/execution.ts (createFilterExecutor and the logging, caching     *)
(* and retry middleware), the tree stores of src/unnamed/part_002 and      *)
(* src/unnamed/part_003, and the evaluation engine of                      *)
(* src/src/client-executor.ts.                                             *)
(***************************************************************************)
EXTENDS Integers, Sequences, FiniteSets, TLC

\* ------------------------------------------------------------------ bounds

\* Number of invocations of one composed callable (or one middleware).
NumInv == 2
\* Largest maxRetries a retryMiddleware is built with.
MaxRetriesBound == 2
\* Largest number of middleware in front of the terminal executor.
MaxMw == 2
\* Number of ids crypto.randomUUID() hands out in one run.
MaxIds == 3
\* Largest number of items in a data collection.
MaxItems == 2
\* Largest number of fields in a configuration that seeds a tree.
MaxFields == 2

VARIABLES
    mode,       \* "composed": createFilterExecutor(...stages) is invoked;
                \* "direct": stages[1] is called with stages[2] as its next
    stages,     \* the arguments of createFilterExecutor, the executor last
    inv,        \* the invocations: their dispatch state, frames and outcome
    storage     \* the Map given to cacheMiddleware

pipeVars == <<mode, stages, inv, storage>>

VARIABLES
    impl,       \* which store: "class" (FilterStore), "legend" or "zustand"
    tree,       \* the store's FilterAST, the root Group
    nextId,     \* the ids crypto.randomUUID() has handed out so far
    last        \* the last operation: its name, arguments and outcome

storeVars == <<impl, tree, nextId, last>>

VARIABLES
    data,       \* the array given to createClientExecutor: the items it was
                \* given, and the items it holds now
    evalConfig, \* the ClientExecutorConfig given to createClientExecutor
    run         \* the call of the executor: its AST and what it settled with

evalVars == <<data, evalConfig, run>>

vars == <<mode, stages, inv, storage, impl, tree, nextId, last, data, evalConfig, run>>

\* No client executor takes part in a run of the pipeline or of a store.
EvalParked ==
    /\ data = [given |-> <<>>, items |-> <<>>]
    /\ evalConfig = [customOperations |-> <<>>, fieldExtractors |-> <<>>]
    /\ run = [status |-> "none"]

Invs == 1..NumInv

\* ------------------------------------------------------------------ values

\* A settled value: a result collection or an error, tagged with the
\* invocation and the call of the producer that made it.
Val(t, who, call, msg) == [t |-> t, who |-> who, call |-> call, msg |-> msg]

NoVal == Val("none", 0, 0, "")

DoubleDispatchMsg == "next() called multiple times"

MissingStageMsg == "No middleware found at index"

\* ------------------------------------------------------------------ ASTs

\* Rule values (types.ts Primitive | Primitive[]), tagged by their type.
Null == [t |-> "null", v |-> <<>>]

NaNValue == [t |-> "number", v |-> <<"NaN">>]

EmptyList == [t |-> "list", v |-> <<>>]

\* A filter AST handed to an executor: the tree and the order in which the
\* properties of its rule objects were inserted (JSON.stringify writes
\* properties in insertion order).
PipeRule(val) == [id |-> 2, field |-> "a", op |-> "eq", value |-> val, component |-> "text"]

PipeRoot(kids) == [id |-> 1, combinator |-> "and", children |-> kids]

DefaultAst == [root |-> PipeRoot(<<PipeRule(Null)>>), idFirst |-> TRUE]

\* The default AST, the same tree with its rule's id written last, and another
\* tree (value NaN) whose serialization is the default's.
PipeAsts ==
    { DefaultAst,
      [root |-> PipeRoot(<<PipeRule(Null)>>), idFirst |-> FALSE],
      [root |-> PipeRoot(<<PipeRule(NaNValue)>>), idFirst |-> TRUE] }

Contexts == {"ctx1", "ctx2"}

\* JSON.stringify of a rule value: null and NaN are both written null.
StringifyValue(val) ==
    CASE val.t = "null" -> "null"
      [] val.t = "number" -> IF val.v = <<"NaN">> THEN "null" ELSE val.v[1]
      [] val.t = "list" -> "[]"
      [] OTHER -> "?"

RECURSIVE StringifyNodes(_, _)
RECURSIVE StringifyNode(_, _)
StringifyNode(node, idFirst) ==
    IF "children" \in DOMAIN node
    THEN "{id:" \o ToString(node.id) \o ",combinator:" \o node.combinator
            \o ",children:[" \o StringifyNodes(node.children, idFirst) \o "]}"
    ELSE LET body == "field:" \o node.field \o ",op:" \o node.op \o ",value:"
                        \o StringifyValue(node.value) \o ",component:" \o node.component
         IN IF idFirst THEN "{id:" \o ToString(node.id) \o "," \o body \o "}"
            ELSE "{" \o body \o ",id:" \o ToString(node.id) \o "}"

StringifyNodes(nodes, idFirst) ==
    IF nodes = <<>> THEN ""
    ELSE StringifyNode(Head(nodes), idFirst)
            \o (IF Len(nodes) > 1 THEN "," ELSE "")
            \o StringifyNodes(Tail(nodes), idFirst)

JSONStringify(ast) == StringifyNode(ast.root, ast.idFirst)

\* ------------------------------------------------------------------ stages

Mw(kind, n) == [kind |-> kind, n |-> n]

\* The middleware of execution.ts, and four scripted ones that call next
\* once, never (returning a result of their own), twice in a row, and once
\* with another AST and another context than they were given.
LibraryMiddlewares ==
    {Mw("logging", 0), Mw("cache", 0)} \cup {Mw("retry", n) : n \in 0..MaxRetriesBound}

ScriptedMiddlewares == {Mw("once", 0), Mw("skip", 0), Mw("twice", 0), Mw("rewrite", 0)}

\* The terminal executor: each call settles later, resolved or rejected.
Executor == Mw("exec", 0)

RECURSIVE MwSeqs(_)
MwSeqs(n) ==
    IF n = 0 THEN {<<>>}
    ELSE MwSeqs(n - 1) \cup
         {Append(s, m) : s \in {t \in MwSeqs(n - 1) : Len(t) = n - 1},
                         m \in LibraryMiddlewares \cup ScriptedMiddlewares}

ComposedPipelines == {Append(s, Executor) : s \in MwSeqs(MaxMw)}

DirectCalls == {<<m, Executor>> : m \in LibraryMiddlewares}

Stage(i) == stages[i + 1]

\* The ASTs and contexts callers pass: only cacheMiddleware reads either, so
\* they vary where a cacheMiddleware is among the stages.
HasCache == \E k \in 1..Len(stages) : stages[k].kind = "cache"

InputAsts == IF HasCache THEN PipeAsts ELSE {DefaultAst}

InputContexts == IF HasCache THEN Contexts ELSE {"ctx1"}

\* ------------------------------------------------------------------ frames

\* A middleware suspended in an await: pc is "await" (at await next(...)),
\* "await2" (the scripted second call) or "delay" (retry's setTimeout).
\* arg is the (ast, context) the middleware was called with.
Frame(i, key, arg) ==
    [stage |-> i, pc |-> "await", attempt |-> 0, lastError |-> NoVal, key |-> key, arg |-> arg]

\* The arguments of a call: an AST and a context.
Args(ast, ctx) == [ast |-> ast, ctx |-> ctx]

\* What the rewriting middleware hands to next.
RewrittenArgs == Args([root |-> PipeRoot(<<>>), idFirst |-> TRUE], "rewritten")

\* next(ast, context) in the library middleware and the scripted ones: what
\* they were given, except in the one that rewrites.
passedToNext(kind, arg) == IF kind = "rewrite" THEN RewrittenArgs ELSE arg

\* execution.ts:74,78  the stage is called with the ast and context of the
\* composed callable; the (ast, ctx) given to next are not used
dispatchedArgs(own, passed) == own

\* execution.ts:59  let index = 0
InitialIndex == 0

IdleInv(i) ==
    [id |-> i, status |-> "idle", ast |-> DefaultAst, ctx |-> "ctx1",
     index |-> InitialIndex, stack |-> <<>>, ret |-> NoVal, pend |-> FALSE,
     trace |-> <<>>, calls |-> 0, settles |-> <<>>, after |-> {},
     arg |-> Args(DefaultAst, "ctx1"), seen |-> <<>>]

Done(i) == inv[i].status \in {"resolved", "rejected"}

\* after: the invocations that had settled when this one was made.
StartedInv(i, ast, ctx) ==
    [IdleInv(i) EXCEPT !.status = "running", !.ast = ast, !.ctx = ctx,
                       !.after = {j \in Invs : Done(j)}, !.arg = Args(ast, ctx)]

Top(r) == Head(r.stack)

Pop(r) == [r EXCEPT !.stack = Tail(@)]

Push(r, f) == [r EXCEPT !.stack = <<f>> \o @]

SetTop(r, f) == [r EXCEPT !.stack = <<f>> \o Tail(@)]

\* An async function that throws returns a rejected promise; one that returns
\* a value, a resolved one. The awaiting frame (or the caller) sees it later.
Throw(r, msg) == [r EXCEPT !.ret = Val("err", r.id, 0, msg)]

Settled(r, v) == [r EXCEPT !.ret = v]

\* A promise settled with no frame left awaiting it is the invocation's own.
Finish(r) ==
    IF r.status = "running" /\ r.stack = <<>> /\ r.ret.t # "none"
    THEN [r EXCEPT !.status = IF r.ret.t = "res" THEN "resolved" ELSE "rejected"]
    ELSE r

\* ------------------------------------------------------------------ createFilterExecutor

\* execution.ts:62  if (i <= index) throw new Error("next() called multiple times")
dispatchRefuses(i, index) == i <= index

\* The terminal executor (or, called directly, the next function) is invoked:
\* its promise is pending until ExecutorSettles.
callExecutor(r, i) ==
    [r EXCEPT !.trace = Append(@, i), !.calls = @ + 1, !.pend = TRUE, !.ret = NoVal,
              !.seen = Append(@, [stage |-> i, arg |-> r.arg])]

\* Mutant: the context is part of the key.
cacheKeyWithContext(ast, ctx) == JSONStringify(ast) \o ctx

\* execution.ts:118  const key = JSON.stringify(ast)
cacheKey(ast, ctx) == JSONStringify(ast)

\* execution.ts:120  storage.has(key)
cacheHas(st, key) == key \in DOMAIN st

\* execution.ts:125  storage.set(key, results)
cacheSet(st, key, v) == [k \in DOMAIN st \cup {key} |-> IF k = key THEN v ELSE st[k]]

\* Mutant: the loop stops one attempt early.
retryLoopStopsEarly(attempt, maxRetries) == attempt < maxRetries

\* execution.ts:138  attempt <= maxRetries
retryLoopContinues(attempt, maxRetries) == attempt <= maxRetries

\* execution.ts:144  if (attempt < maxRetries) await delay
retryDelays(attempt, maxRetries) == attempt < maxRetries

RECURSIVE dispatch(_, _, _)
RECURSIVE runMiddleware(_, _, _)
RECURSIVE callNext(_, _, _)

\* The next handed to middleware i: (ast, ctx) => dispatch(i + 1) in a composed
\* pipeline, the caller's function when the middleware is called directly.
callNext(r, i, st) ==
    LET r1 == [r EXCEPT !.arg = passedToNext(Stage(i).kind, Top(r).arg)]
    IN IF mode = "composed" THEN dispatch(r1, i + 1, st) ELSE callExecutor(r1, i + 1)

\* Middleware i runs from its first line to its first await.
runMiddleware(r, i, st) ==
    LET kind == Stage(i).kind
        r1 == [r EXCEPT !.trace = Append(@, i), !.ret = NoVal,
                        !.seen = Append(@, [stage |-> i, arg |-> r.arg])]
        key == IF kind = "cache" THEN cacheKey(r.arg.ast, r.arg.ctx) ELSE ""
    IN CASE kind = "skip" -> Settled(r1, Val("res", r.id, 0, "own"))
         [] kind = "cache" /\ cacheHas(st, key) -> Settled(r1, st[key])
         [] kind = "retry" /\ ~retryLoopContinues(0, Stage(i).n) -> Throw(r1, "undefined")
         [] OTHER -> callNext(Push(r1, Frame(i, key, r.arg)), i, st)

dispatch(r, i, st) ==
    IF dispatchRefuses(i, r.index) THEN Throw(r, DoubleDispatchMsg)
    ELSE LET r1 == [r EXCEPT !.index = i,
                             !.arg = dispatchedArgs(Args(r.ast, r.ctx), r.arg)]
         IN IF i >= Len(stages) THEN Throw(r1, MissingStageMsg)
            ELSE IF i = Len(stages) - 1 THEN callExecutor(r1, i)
            ELSE runMiddleware(r1, i, st)

\* createFilterExecutor(...stages): the executor itself when it is the only
\* argument, else the composed callable, which starts at dispatch(0).
composed(r, st) ==
    IF Len(stages) = 1 THEN callExecutor(r, 0) ELSE dispatch(r, 0, st)

\* ------------------------------------------------------------------ middleware

\* Mutant: when the timer fires the middleware waits again instead of going
\* round the loop.
retryWaitsAgain(r, st) == SetTop(r, [Top(r) EXCEPT !.pc = "delay"])

\* retryMiddleware's loop from attempt++ on: another call of next, or the
\* throw lastError after the loop.
retryNextAttempt(r, st) ==
    LET f == Top(r)
        g == [f EXCEPT !.attempt = @ + 1, !.pc = "await"]
    IN IF retryLoopContinues(g.attempt, Stage(f.stage).n)
       THEN callNext(SetTop([r EXCEPT !.ret = NoVal], g), f.stage, st)
       ELSE Settled(Pop(r), f.lastError)

\* Mutant: the error is logged and swallowed.
loggingSwallows(v) == IF v.t = "err" THEN Val("res", v.who, 0, "own") ELSE v

\* loggingMiddleware after its await: return results, or rethrow the error.
loggingSettles(v) == v

\* The frame on top of the stack resumes with the settled value r.ret and
\* runs to its next await or to its end.
resumeFrame(r, st) ==
    LET f == Top(r)
        kind == Stage(f.stage).kind
        ok == r.ret.t = "res"
    IN CASE kind = "logging" -> Settled(Pop(r), loggingSettles(r.ret))
         [] kind = "twice" /\ f.pc = "await" /\ ok ->
                callNext(SetTop([r EXCEPT !.ret = NoVal], [f EXCEPT !.pc = "await2"]), f.stage, st)
         [] kind = "retry" /\ ~ok ->
                LET g == [f EXCEPT !.lastError = r.ret]
                IN IF retryDelays(f.attempt, Stage(f.stage).n)
                   THEN SetTop([r EXCEPT !.ret = NoVal], [g EXCEPT !.pc = "delay"])
                   ELSE retryNextAttempt(SetTop(r, g), st)
         [] OTHER -> Pop(r)

\* cacheMiddleware after its await: storage.set(key, results) when next resolved.
resumeStorage(r, st) ==
    LET f == Top(r)
    IN IF Stage(f.stage).kind = "cache" /\ r.ret.t = "res"
       THEN cacheSet(st, f.key, r.ret) ELSE st

\* ------------------------------------------------------------------ actions

\* No store takes part in a run of the pipeline.
StoreParked ==
    /\ impl = "none"
    /\ tree = PipeRoot(<<>>)
    /\ nextId = 0
    /\ last = [op |-> "none"]

PipeInit ==
    /\ \/ mode = "composed" /\ stages \in ComposedPipelines
       \/ mode = "direct" /\ stages \in DirectCalls
    /\ inv = [i \in Invs |-> IdleInv(i)]
    /\ storage = [k \in {} |-> NoVal]
    /\ StoreParked
    /\ EvalParked

\* A caller invokes the callable with an AST and a context.
Invoke(i) ==
    /\ inv[i].status = "idle"
    /\ \A j \in Invs : j < i => inv[j].status # "idle"
    /\ \E ast \in InputAsts, ctx \in InputContexts :
          LET r == StartedInv(i, ast, ctx)
          IN inv' = [inv EXCEPT ![i] =
                        Finish(IF mode = "composed" THEN composed(r, storage)
                               ELSE runMiddleware(r, 0, storage))]
    /\ UNCHANGED <<mode, stages, storage>>
    /\ UNCHANGED <<storeVars, evalVars>>

\* The pending call of the terminal executor resolves or rejects.
ExecutorSettles(i) ==
    /\ inv[i].status = "running"
    /\ inv[i].pend
    /\ \E t \in {"res", "err"} :
          inv' = [inv EXCEPT ![i] =
                    Finish([inv[i] EXCEPT !.pend = FALSE,
                                          !.ret = Val(t, i, inv[i].calls, "exec"),
                                          !.settles = Append(@, t)])]
    /\ UNCHANGED <<mode, stages, storage>>
    /\ UNCHANGED <<storeVars, evalVars>>

\* The promise a middleware awaits has settled: the middleware continues.
Resume(i) ==
    /\ inv[i].status = "running"
    /\ inv[i].ret.t # "none"
    /\ inv[i].stack # <<>>
    /\ inv' = [inv EXCEPT ![i] = Finish(resumeFrame(inv[i], storage))]
    /\ storage' = resumeStorage(inv[i], storage)
    /\ UNCHANGED <<mode, stages>>
    /\ UNCHANGED <<storeVars, evalVars>>

\* retryMiddleware's setTimeout fires.
TimerFires(i) ==
    /\ inv[i].status = "running"
    /\ inv[i].stack # <<>>
    /\ Top(inv[i]).pc = "delay"
    /\ inv' = [inv EXCEPT ![i] = Finish(retryNextAttempt(inv[i], storage))]
    /\ UNCHANGED <<mode, stages, storage>>
    /\ UNCHANGED <<storeVars, evalVars>>

PipeNext ==
    \E i \in Invs : Invoke(i) \/ ExecutorSettles(i) \/ Resume(i) \/ TimerFires(i)

SpecPipe == PipeInit /\ [][PipeNext]_vars

\* retryMiddleware called directly, with a next whose every call settles and
\* timers that fire: a pending call of next settles, a middleware whose
\* awaited promise has settled continues, a running timer fires. Nothing
\* makes a caller call.
RetryInit == PipeInit /\ mode = "direct" /\ stages[1].kind = "retry"

PipeFairness ==
    \A i \in Invs :
        /\ WF_vars(ExecutorSettles(i))
        /\ WF_vars(Resume(i))
        /\ WF_vars(TimerFires(i))

SpecRetryLive == RetryInit /\ [][PipeNext]_vars /\ PipeFairness

\* ------------------------------------------------------------------ claims: the pipeline

\* A composed pipeline of at least one middleware, every middleware calling
\* next exactly once.
OnceEach ==
    /\ mode = "composed"
    /\ Len(stages) >= 2
    /\ \A k \in 1..(Len(stages) - 1) : stages[k].kind \in {"once", "logging"}

AllStagesInOrder == [k \in 1..Len(stages) |-> k - 1]

DoubleDispatch(i) == Val("err", i, 0, DoubleDispatchMsg)

\* C1: one invocation of a pipeline whose middleware each call next once
\* invokes stage 0, 1, ..., the terminal executor, each once and in that
\* order, and settles with the terminal executor's outcome.
C1_OnionOrder ==
    \A i \in Invs :
        (OnceEach /\ Done(i)) =>
            /\ inv[i].trace = AllStagesInOrder
            /\ Len(inv[i].settles) = 1
            /\ inv[i].ret = Val(inv[i].settles[1], i, 1, "exec")

\* C2: a middleware's first call of next dispatches the downstream stage; its
\* second call fails with "next() called multiple times" and does not run the
\* downstream stage again.
C2_SecondNextRefused ==
    \A i \in Invs :
        (mode = "composed" /\ stages = <<Mw("twice", 0), Executor>> /\ Done(i)) =>
            /\ inv[i].trace = <<0, 1>>
            /\ inv[i].settles = <<"res">> => inv[i].ret = DoubleDispatch(i)
            /\ inv[i].settles = <<"err">> => inv[i].ret = Val("err", i, 1, "exec")

\* C3: a middleware that returns without calling next ends the chain: no later
\* stage is invoked and the pipeline resolves with that middleware's result.
C3_SkipShortCircuits ==
    \A i \in Invs : \A k \in 1..(Len(stages) - 1) :
        ( /\ mode = "composed"
          /\ stages[k].kind = "skip"
          /\ \A j \in 1..(k - 1) : stages[j].kind \in {"once", "logging"}
          /\ Done(i) ) =>
            /\ inv[i].trace = [j \in 1..k |-> j - 1]
            /\ inv[i].status = "resolved"
            /\ inv[i].ret = Val("res", i, 0, "own")

\* C4: createFilterExecutor(cacheMiddleware(storage), terminalExecutor), invoked
\* twice with the same AST, the second time after the first has settled, and
\* the executor never rejecting: the executor is invoked once in total and
\* both invocations resolve with that one result.
C4_CacheHitsSecondTime ==
    \A i, j \in Invs :
        ( /\ mode = "composed"
          /\ stages = <<Mw("cache", 0), Executor>>
          /\ Done(i) /\ Done(j) /\ i \in inv[j].after
          /\ inv[i].ast = inv[j].ast
          /\ \A k \in {i, j} : \A n \in 1..Len(inv[k].settles) : inv[k].settles[n] = "res" ) =>
            /\ inv[i].calls + inv[j].calls = 1
            /\ inv[i].ret = Val("res", i, 1, "exec")
            /\ inv[j].ret = inv[i].ret

\* C5: createFilterExecutor(retryMiddleware(n, base), failingExecutor), the
\* executor rejecting every call: one invocation calls the executor n + 1
\* times and then rejects with the executor's error.
C5_RetryComposed ==
    \A i \in Invs :
        ( /\ mode = "composed"
          /\ Len(stages) = 2 /\ stages[1].kind = "retry"
          /\ Done(i)
          /\ \A n \in 1..Len(inv[i].settles) : inv[i].settles[n] = "err" ) =>
            /\ inv[i].calls = stages[1].n + 1
            /\ inv[i].ret = Val("err", i, stages[1].n + 1, "exec")

DirectCall(kind) == mode = "direct" /\ stages[1].kind = kind

AllRejected(i) == \A k \in 1..Len(inv[i].settles) : inv[i].settles[k] = "err"

\* C6: retryMiddleware(maxRetries, baseDelay) called directly calls next again
\* only after a rejected call, and at most maxRetries + 1 times; it resolves
\* with the result of the first call that resolves and calls next no more; it
\* rejects only when maxRetries + 1 calls have rejected, with the last error.
C6_RetryDirect ==
    \A i \in Invs :
        DirectCall("retry") =>
            /\ inv[i].calls <= stages[1].n + 1
            /\ \A k \in 1..Len(inv[i].settles) :
                  inv[i].settles[k] = "res" => inv[i].calls = k
            /\ inv[i].status = "resolved" =>
                  /\ inv[i].settles[inv[i].calls] = "res"
                  /\ inv[i].ret = Val("res", i, inv[i].calls, "exec")
            /\ inv[i].status = "rejected" =>
                  /\ AllRejected(i)
                  /\ inv[i].calls = stages[1].n + 1
                  /\ inv[i].ret = Val("err", i, stages[1].n + 1, "exec")

\* C6 witness: with maxRetries = 2, one call rejects after three rejected calls
\* of next and another resolves at its second call of next.
C6_Witness ==
    /\ DirectCall("retry") /\ stages[1].n = 2
    /\ inv[1].status = "rejected" /\ inv[1].calls = 3
    /\ inv[2].status = "resolved" /\ inv[2].settles = <<"err", "res">>

\* C8: cacheMiddleware(storage) called directly. A call whose AST serializes
\* to a key of storage resolves with the stored collection and does not call
\* next; any other call calls next once. storage changes only when a call's
\* next has resolved, by that key getting next's result, which the call
\* returns; when next rejects storage stays as it is and the call rejects with
\* next's error. The context plays no part.
C8_CacheDirect ==
    [][ DirectCall("cache") =>
          \A i \in Invs :
            LET key == JSONStringify(inv'[i].ast)
                called == inv[i].status = "idle" /\ inv'[i].status # "idle"
                resumed == inv[i].status = "running" /\ inv[i].ret.t # "none" /\ inv'[i] # inv[i]
            IN /\ (called /\ key \in DOMAIN storage) =>
                     /\ inv'[i].status = "resolved"
                     /\ inv'[i].ret = storage[key]
                     /\ inv'[i].calls = 0
                     /\ storage' = storage
               /\ (called /\ key \notin DOMAIN storage) =>
                     /\ inv'[i].status = "running"
                     /\ inv'[i].calls = 1 /\ inv'[i].pend
                     /\ storage' = storage
               /\ inv'[i].calls <= 1
               /\ (resumed /\ inv[i].ret.t = "res") =>
                     /\ inv'[i].status = "resolved" /\ inv'[i].ret = inv[i].ret
                     /\ DOMAIN storage' = DOMAIN storage \cup {key}
                     /\ storage'[key] = inv[i].ret
                     /\ \A k \in DOMAIN storage \ {key} : storage'[k] = storage[k]
               /\ (resumed /\ inv[i].ret.t = "err") =>
                     /\ inv'[i].status = "rejected" /\ inv'[i].ret = inv[i].ret
                     /\ storage' = storage
               /\ (storage' # storage) => \E j \in Invs :
                     inv[j].status = "running" /\ inv[j].ret.t = "res" /\ inv'[j].status = "resolved"
      ]_pipeVars

\* C8 witness: a second call, with another context and an AST that is another
\* tree with the same serialization, was answered from storage without a call
\* of next.
C8_Witness ==
    /\ DirectCall("cache")
    /\ inv[1].status = "resolved" /\ inv[1].calls = 1
    /\ inv[2].status = "resolved" /\ inv[2].calls = 0
    /\ inv[2].ctx # inv[1].ctx /\ inv[2].ast # inv[1].ast
    /\ inv[2].ret = inv[1].ret
    /\ DOMAIN storage = {JSONStringify(inv[2].ast)}

\* C9: loggingMiddleware called directly calls next exactly once and settles
\* as next did: with the same collection, or with the same error.
C9_LoggingTransparent ==
    \A i \in Invs :
        DirectCall("logging") =>
            /\ inv[i].status # "idle" => inv[i].calls = 1 /\ inv[i].trace = <<0, 1>>
            /\ Done(i) =>
                  /\ Len(inv[i].settles) = 1
                  /\ inv[i].ret = Val(inv[i].settles[1], i, 1, "exec")
                  /\ inv[i].status = (IF inv[i].settles[1] = "res" THEN "resolved" ELSE "rejected")

\* C9 witness: one call resolved with next's collection, one rejected with
\* next's error.
C9_Witness ==
    /\ DirectCall("logging")
    /\ inv[1].status = "resolved" /\ inv[1].ret.msg = "exec"
    /\ inv[2].status = "rejected" /\ inv[2].ret.msg = "exec"

\* ------------------------------------------------------------------ the tree store: helpers

\* "children" in node
IsGroup(node) == "children" \in DOMAIN node

IsRule(node) == ~IsGroup(node)

\* The null an updateFn returns for a node to drop.
Removed == [removed |-> TRUE]

\* types.ts defaultOperations
defaultOperations ==
    [text |-> <<"eq", "contains", "ne">>,
     number |-> <<"eq", "ne", "lt", "gt", "lte", "gte">>,
     date |-> <<"eq", "ne", "lt", "gt", "lte", "gte">>,
     datetime |-> <<"eq", "ne", "lt", "gt", "lte", "gte">>,
     select |-> <<"eq", "ne">>,
     boolean |-> <<"eq", "ne">>,
     multiselect |-> <<"in", "nin">>]

\* table?.[component]?.[0], <<>> standing for undefined
FirstOp(table, component) ==
    IF component \in DOMAIN table /\ table[component] # <<>>
    THEN <<table[component][1]>> ELSE <<>>

\* Mutant: the built-in table is asked before the configuration's.
chooseBuiltinFirst(field, config) ==
    IF "defaultOp" \in DOMAIN field THEN field.defaultOp
    ELSE IF FirstOp(defaultOperations, field.component) # <<>>
         THEN FirstOp(defaultOperations, field.component)[1]
    ELSE IF "defaultOperations" \in DOMAIN config
            /\ FirstOp(config.defaultOperations, field.component) # <<>>
         THEN FirstOp(config.defaultOperations, field.component)[1]
    ELSE "eq"

\* field.defaultOp ?? config.defaultOperations?.[c]?.[0] ?? defaultOperations[c]?.[0] ?? "eq"
chooseDefaultOp(field, config) ==
    IF "defaultOp" \in DOMAIN field THEN field.defaultOp
    ELSE IF "defaultOperations" \in DOMAIN config
            /\ FirstOp(config.defaultOperations, field.component) # <<>>
         THEN FirstOp(config.defaultOperations, field.component)[1]
    ELSE IF FirstOp(defaultOperations, field.component) # <<>>
         THEN FirstOp(defaultOperations, field.component)[1]
    ELSE "eq"

\* makeFilterRoot(combinator = "and"), its id the first one handed out
makeFilterRoot(id) == [id |-> id, combinator |-> "and", children |-> <<>>]

\* Mutant: every rule starts with null.
initialValueNull(component) == Null

\* helpers.ts:41  field.component === "multiselect" ? [] : null
initialValue(component) == IF component = "multiselect" THEN EmptyList ELSE Null

\* createInitialFilterState(config), the ids handed out being first, first + 1, ...
createInitialFilterState(config, first) ==
    [makeFilterRoot(first) EXCEPT !.children =
        [k \in 1..Len(config.fields) |->
            LET field == config.fields[k]
            IN [id |-> first + k,
                field |-> field.field,
                op |-> chooseDefaultOp(field, config),
                value |-> initialValue(field.component),
                component |-> field.component]]]

RECURSIVE findNodeById(_, _)
\* findNodeById(nodeId, nodes): <<node>>, or <<>> for null
findNodeById(nodeId, nodes) ==
    IF nodes = <<>> THEN <<>>
    ELSE LET node == Head(nodes)
         IN IF node.id = nodeId THEN <<node>>
            ELSE LET found == IF IsGroup(node) THEN findNodeById(nodeId, node.children) ELSE <<>>
                 IN IF found # <<>> THEN found ELSE findNodeById(nodeId, Tail(nodes))

RECURSIVE findGroupById(_, _)
\* findGroupById(groupId, nodes): <<group>>, or <<>> for null
findGroupById(groupId, nodes) ==
    IF nodes = <<>> THEN <<>>
    ELSE LET node == Head(nodes)
         IN IF node.id = groupId /\ IsGroup(node) THEN <<node>>
            ELSE LET found == IF IsGroup(node) THEN findGroupById(groupId, node.children) ELSE <<>>
                 IN IF found # <<>> THEN found ELSE findGroupById(groupId, Tail(nodes))

\* Mutant: the new node is put in front of the children.
prependNode(children, newNode) == <<newNode>> \o children

\* [...node.children, newNode], children.push(newNode)
appendNode(children, newNode) == Append(children, newNode)

\* The update functions the operations hand to updateTree.
applyUpdate(fn, node) ==
    CASE fn.kind = "append" ->
            IF IsGroup(node) THEN [node EXCEPT !.children = appendNode(@, fn.node)] ELSE node
      [] fn.kind = "mergeRule" -> IF IsGroup(node) THEN node ELSE fn.partial @@ node
      [] fn.kind = "mergeGroup" -> IF IsGroup(node) THEN fn.partial @@ node ELSE node
      [] fn.kind = "removeRule" -> IF IsRule(node) THEN Removed ELSE node
      [] fn.kind = "removeGroup" -> IF IsGroup(node) THEN Removed ELSE node
      [] OTHER -> Removed

\* Mutant: the filter drops the groups left without children too.
notNullNorEmpty(node) == node # Removed /\ (IsGroup(node) => node.children # <<>>)

\* .filter((node) => node !== null)
notNull(node) == node # Removed

RECURSIVE updateTree(_, _, _)
\* updateTree(nodes, targetId, updateFn): map, then filter out the nulls
updateTree(nodes, targetId, fn) ==
    LET mapped == [k \in 1..Len(nodes) |->
                     IF nodes[k].id = targetId THEN applyUpdate(fn, nodes[k])
                     ELSE IF IsGroup(nodes[k])
                          THEN [nodes[k] EXCEPT !.children = updateTree(@, targetId, fn)]
                          ELSE nodes[k]]
    IN SelectSeq(mapped, notNull)

RECURSIVE collectRules(_)
\* getAllRules's collectRules / extractRules
collectRules(nodes) ==
    IF nodes = <<>> THEN <<>>
    ELSE (IF IsGroup(Head(nodes)) THEN collectRules(Head(nodes).children) ELSE <<Head(nodes)>>)
            \o collectRules(Tail(nodes))

RECURSIVE collectGroups(_)
\* getAllGroups's collectGroups / extractGroups
collectGroups(nodes) ==
    IF nodes = <<>> THEN <<>>
    ELSE (IF IsGroup(Head(nodes))
          THEN <<Head(nodes)>> \o collectGroups(Head(nodes).children) ELSE <<>>)
            \o collectGroups(Tail(nodes))

\* ------------------------------------------------------------------ the tree store: operations

\* The last call of an operation: its arguments, the tree it was called on,
\* whether it threw, and what it returned (<<>> for undefined).
Outcome(op, args, threw, ret) ==
    [op |-> op, args |-> args, before |-> tree, threw |-> threw, ret |-> ret]

\* The three stores of the source.
Stores == {"class", "legend", "zustand"}

\* addRule / addGroup after the new node is built: parent is <<>> when no
\* parentId is given. Yields the new children of the root and whether the
\* operation threw.
addChildIn(store, children, newNode, parent) ==
    IF parent # <<>>
    THEN IF findGroupById(parent[1], children) # <<>>
         THEN [children |-> updateTree(children, parent[1], [kind |-> "append", node |-> newNode]),
               threw |-> FALSE]
         ELSE [children |-> children, threw |-> store = "legend"]
    ELSE [children |-> appendNode(children, newNode), threw |-> FALSE]

\* What addRule / addGroup return: the id in the legend store, nothing in the
\* class and the zustand store.
addReturnsIn(store, id, threw) == IF store = "legend" /\ ~threw THEN <<id>> ELSE <<>>

\* removeRule / removeGroup: kind-specific in the legend store only.
removeFnIn(store, kind) == IF store = "legend" THEN [kind |-> kind] ELSE [kind |-> "removeNode"]

\* The same, in the store of this run.
addChild(children, newNode, parent) == addChildIn(impl, children, newNode, parent)

addReturns(id, threw) == addReturnsIn(impl, id, threw)

removeFn(kind) == removeFnIn(impl, kind)

\* Mutant: the traversal starts at the root itself, and a root that the
\* update dropped is made anew.
updateFromRoot(root, targetId, fn) ==
    LET updated == updateTree(<<root>>, targetId, fn)
    IN IF updated = <<>> THEN makeFilterRoot(0) ELSE updated[1]

\* filters.children.set(updateTree(filters.children.peek(), targetId, updateFn)):
\* the traversal starts at the root's children and only they are written
updateChildren(root, targetId, fn) ==
    [root EXCEPT !.children = updateTree(@, targetId, fn)]

\* ------------------------------------------------------------------ the tree store: inputs

\* The configurations a store is seeded from: no field (the empty root), one
\* field, two fields.
StoreConfigs ==
    { [fields |-> <<>>],
      [fields |-> <<[field |-> "age", component |-> "number"]>>],
      [fields |-> <<[field |-> "tags", component |-> "multiselect"],
                    [field |-> "name", component |-> "text", defaultOp |-> "contains"]>>] }

RuleInputs == {[field |-> "a", op |-> "eq", value |-> Null, component |-> "text"]}

GroupInputs == {[combinator |-> c, children |-> <<>>] : c \in {"and", "or"}}

Ids == 1..MaxIds

\* Partial<Rule>: another op, or another id (the root's).
RulePartials == {[op |-> "ne"], [id |-> 1]}

\* Partial<Omit<Group, "id" | "children">>, and two objects that carry one of
\* the omitted keys: nothing checks the argument when updateGroup runs.
GroupPartials ==
    {[combinator |-> c] : c \in {"and", "or"}} \cup {[id |-> 1], [children |-> <<>>]}

ParentIds == {<<>>} \cup {<<x>> : x \in Ids}

\* ------------------------------------------------------------------ the tree store: actions

\* No pipeline takes part in a run of the store.
PipeParked ==
    /\ mode = "none"
    /\ stages = <<>>
    /\ inv = <<>>
    /\ storage = <<>>

StoreInit ==
    /\ impl \in Stores
    /\ \E config \in StoreConfigs :
          /\ tree = createInitialFilterState(config, 1)
          /\ nextId = 1 + Len(config.fields)
    /\ last = [op |-> "init", args |-> <<>>, before |-> tree, threw |-> FALSE, ret |-> <<>>]
    /\ PipeParked
    /\ EvalParked

AddRule ==
    /\ nextId < MaxIds
    /\ \E rule \in RuleInputs, parent \in ParentIds :
          LET id == nextId + 1
              newRule == [id |-> id] @@ rule
              res == addChild(tree.children, newRule, parent)
          IN /\ tree' = [tree EXCEPT !.children = res.children]
             /\ last' = Outcome("addRule", <<rule, parent>>, res.threw, addReturns(id, res.threw))
    /\ nextId' = nextId + 1
    /\ UNCHANGED <<impl, pipeVars, evalVars>>

AddGroup ==
    /\ nextId < MaxIds
    /\ \E group \in GroupInputs, parent \in ParentIds :
          LET id == nextId + 1
              newGroup == [id |-> id] @@ group
              res == addChild(tree.children, newGroup, parent)
          IN /\ tree' = [tree EXCEPT !.children = res.children]
             /\ last' = Outcome("addGroup", <<group, parent>>, res.threw, addReturns(id, res.threw))
    /\ nextId' = nextId + 1
    /\ UNCHANGED <<impl, pipeVars, evalVars>>

UpdateRule ==
    /\ \E ruleId \in Ids, partial \in RulePartials :
          /\ tree' = updateChildren(tree, ruleId, [kind |-> "mergeRule", partial |-> partial])
          /\ last' = Outcome("updateRule", <<ruleId, partial>>, FALSE, <<>>)
    /\ UNCHANGED <<impl, nextId, pipeVars, evalVars>>

UpdateGroup ==
    /\ \E groupId \in Ids, partial \in GroupPartials :
          /\ tree' = updateChildren(tree, groupId, [kind |-> "mergeGroup", partial |-> partial])
          /\ last' = Outcome("updateGroup", <<groupId, partial>>, FALSE, <<>>)
    /\ UNCHANGED <<impl, nextId, pipeVars, evalVars>>

RemoveRule ==
    /\ \E ruleId \in Ids :
          /\ tree' = updateChildren(tree, ruleId, removeFn("removeRule"))
          /\ last' = Outcome("removeRule", <<ruleId>>, FALSE, <<>>)
    /\ UNCHANGED <<impl, nextId, pipeVars, evalVars>>

RemoveGroup ==
    /\ \E groupId \in Ids :
          /\ tree' = updateChildren(tree, groupId, removeFn("removeGroup"))
          /\ last' = Outcome("removeGroup", <<groupId>>, FALSE, <<>>)
    /\ UNCHANGED <<impl, nextId, pipeVars, evalVars>>

RemoveNode ==
    /\ \E nodeId \in Ids :
          /\ tree' = updateChildren(tree, nodeId, [kind |-> "removeNode"])
          /\ last' = Outcome("removeNode", <<nodeId>>, FALSE, <<>>)
    /\ UNCHANGED <<impl, nextId, pipeVars, evalVars>>

StoreNext ==
    \/ AddRule \/ AddGroup \/ UpdateRule \/ UpdateGroup
    \/ RemoveRule \/ RemoveGroup \/ RemoveNode

SpecStore == StoreInit /\ [][StoreNext]_vars

\* ------------------------------------------------------------------ the tree store: lookup

\* getNode(nodeId): findNodeById(nodeId) over the root's children, <<>> for null
getNode(nodeId) == findNodeById(nodeId, tree.children)

\* getGroup(groupId): findGroupById(groupId) over the root's children
getGroup(groupId) == findGroupById(groupId, tree.children)

\* hasNode(nodeId): findNodeById(nodeId) !== null
hasNode(nodeId) == findNodeById(nodeId, tree.children) # <<>>

GetNode ==
    /\ \E nodeId \in Ids : last' = Outcome("getNode", <<nodeId>>, FALSE, getNode(nodeId))
    /\ UNCHANGED <<impl, tree, nextId, pipeVars, evalVars>>

GetGroup ==
    /\ \E groupId \in Ids : last' = Outcome("getGroup", <<groupId>>, FALSE, getGroup(groupId))
    /\ UNCHANGED <<impl, tree, nextId, pipeVars, evalVars>>

HasNode ==
    /\ \E nodeId \in Ids : last' = Outcome("hasNode", <<nodeId>>, FALSE, <<hasNode(nodeId)>>)
    /\ UNCHANGED <<impl, tree, nextId, pipeVars, evalVars>>

\* getAllRules(): collectRules over the root's children
getAllRules == collectRules(tree.children)

\* getAllGroups(): collectGroups over the root's children
getAllGroups == collectGroups(tree.children)

GetAllRules ==
    /\ last' = Outcome("getAllRules", <<>>, FALSE, <<getAllRules>>)
    /\ UNCHANGED <<impl, tree, nextId, pipeVars, evalVars>>

GetAllGroups ==
    /\ last' = Outcome("getAllGroups", <<>>, FALSE, <<getAllGroups>>)
    /\ UNCHANGED <<impl, tree, nextId, pipeVars, evalVars>>

\* The trees that additions build, and the lookups on them.
LookupNext ==
    \/ AddRule \/ AddGroup
    \/ GetNode \/ GetGroup \/ HasNode
    \/ GetAllRules \/ GetAllGroups

SpecLookup == StoreInit /\ [][LookupNext]_vars

\* ------------------------------------------------------------------ the tree store: seeding

\* An object without a property: a configuration part that is left out.
NoEntries == [k \in {} |-> ""]

\* FilterFieldConfig: a built-in component or a custom one, with or without
\* a defaultOp, with or without a list of allowed operations.
SeedFields ==
    LET named(component) ==
            [field |-> CASE component = "text" -> "name"
                         [] component = "number" -> "age"
                         [] component = "multiselect" -> "tags"
                         [] OTHER -> "place",
             component |-> component]
    IN { named(component) @@ override @@ allowed :
           component \in {"text", "number", "multiselect", "map"},
           override \in {NoEntries, [defaultOp |-> "gt"]},
           allowed \in {NoEntries, [operations |-> <<"ne", "lt">>]} }

\* FilterConfig: up to MaxFields fields; no defaultOperations, or a table
\* with an entry for a built-in and for a custom component, or a table whose
\* entry for a component is an empty list.
SeedConfigs ==
    { [fields |-> fields] @@ table :
        fields \in UNION {[1..n -> SeedFields] : n \in 0..MaxFields},
        table \in { NoEntries,
                    [defaultOperations |-> [text |-> <<"contains", "eq">>, map |-> <<"near">>]],
                    [defaultOperations |-> [text |-> <<>>, number |-> <<"gte">>]] } }

\* A configuration is at hand, createInitialFilterState not called yet.
SeedInit ==
    /\ impl = "none"
    /\ tree = makeFilterRoot(1)
    /\ nextId = 1
    /\ \E config \in SeedConfigs :
          last = [op |-> "config", args |-> <<config>>, before |-> tree,
                  threw |-> FALSE, ret |-> <<>>]
    /\ PipeParked
    /\ EvalParked

\* createInitialFilterState(config)
CreateInitialFilterState ==
    /\ last.op = "config"
    /\ LET config == last.args[1]
           root == createInitialFilterState(config, nextId)
       IN /\ tree' = root
          /\ nextId' = nextId + Len(config.fields)
          /\ last' = Outcome("createInitialFilterState", <<config>>, FALSE, <<root>>)
    /\ UNCHANGED <<impl, pipeVars, evalVars>>

SeedNext == CreateInitialFilterState

SpecSeed == SeedInit /\ [][SeedNext]_vars

\* ------------------------------------------------------------------ the evaluation engine: values

\* JavaScript values, tagged by their type like the rule values above: an
\* object carries its properties, a list its elements.
Undefined == [t |-> "undefined", v |-> <<>>]

Num(n) == [t |-> "number", v |-> <<n>>]

Str(s) == [t |-> "string", v |-> <<s>>]

List(elems) == [t |-> "list", v |-> elems]

Obj(props) == [t |-> "object", v |-> props]

\* value == null: null or undefined
isNullish(val) == val.t \in {"null", "undefined"}

\* a === b: primitives by type and value; an object or an array is identical
\* to itself only, and no field value is the same object as a rule value.
strictEquals(a, b) == a.t \notin {"list", "object"} /\ a.t = b.t /\ a.v = b.v

\* obj?.[key]
getProp(obj, key) ==
    IF obj.t = "object" /\ key \in DOMAIN obj.v THEN obj.v[key] ELSE Undefined

\* fieldPath.split('.'), for the field names in use
splitPath(fieldPath) ==
    CASE fieldPath = "user.age" -> <<"user", "age">>
      [] OTHER -> <<fieldPath>>

RECURSIVE reducePath(_, _)
\* keys.reduce((current, key) => current?.[key], obj)
reducePath(obj, keys) ==
    IF keys = <<>> THEN obj ELSE reducePath(getProp(obj, Head(keys)), Tail(keys))

\* client-executor.ts getFieldValue
getFieldValue(obj, fieldPath) == reducePath(obj, splitPath(fieldPath))

\* s.toLowerCase(), for the strings in use
toLowerCase(s) == IF s = "Ab" THEN "ab" ELSE s

\* s.includes(sub), for the strings in use
includes(s, sub) == sub = "" \/ s = sub \/ (s = "ab" /\ sub \in {"a", "b"})

\* ToPrimitive of a value as an operand of <: an array is its elements joined
\* by commas, an object is "[object Object]".
toPrimitive(val) ==
    CASE val.t = "list" ->
            IF val.v = <<>> THEN Str("")
            ELSE IF Len(val.v) = 1 /\ val.v[1].t = "number" THEN Str(ToString(val.v[1].v[1]))
            ELSE Str("?")
      [] val.t = "object" -> Str("[object Object]")
      [] OTHER -> val

\* ToNumber of a primitive: <<n>>, or <<>> for NaN
toNumber(val) ==
    CASE val.t = "number" -> val.v
      [] val.t = "null" -> <<0>>
      [] val.t = "string" ->
            IF val.v[1] = "" THEN <<0>> ELSE IF val.v[1] = "1" THEN <<1>> ELSE <<>>
      [] OTHER -> <<>>

\* The strings in use, in the order of their code units.
stringOrder == <<"", "1", "?", "Ab", "[object Object]", "a", "ab">>

stringRank(s) == CHOOSE k \in 1..Len(stringOrder) : stringOrder[k] = s

\* The abstract relational comparison a < b: "true", "false", or "undefined"
\* when an operand is NaN.
lessThan(a, b) ==
    LET pa == toPrimitive(a)
        pb == toPrimitive(b)
    IN IF pa.t = "string" /\ pb.t = "string"
       THEN IF stringRank(pa.v[1]) < stringRank(pb.v[1]) THEN "true" ELSE "false"
       ELSE IF toNumber(pa) = <<>> \/ toNumber(pb) = <<>> THEN "undefined"
       ELSE IF toNumber(pa)[1] < toNumber(pb)[1] THEN "true" ELSE "false"

\* array.indexOf(val) !== -1
indexOfFinds(array, val) == \E k \in 1..Len(array.v) : strictEquals(array.v[k], val)

\* ------------------------------------------------------------------ the evaluation engine: handlers

\* The names of the built-in handlers.
BuiltinOps == {"eq", "ne", "contains", "lt", "lte", "gt", "gte", "in", "nin"}

\* client-executor.ts defaultOperations[op](fieldValue, ruleValue)
builtinOperation(op, fieldValue, ruleValue) ==
    CASE op = "eq" -> strictEquals(fieldValue, ruleValue)
      [] op = "ne" -> ~strictEquals(fieldValue, ruleValue)
      [] op = "contains" ->
            /\ fieldValue.t = "string" /\ ruleValue.t = "string"
            /\ includes(toLowerCase(fieldValue.v[1]), toLowerCase(ruleValue.v[1]))
      [] op = "lt" -> ~isNullish(ruleValue) /\ lessThan(fieldValue, ruleValue) = "true"
      [] op = "lte" -> ~isNullish(ruleValue) /\ lessThan(ruleValue, fieldValue) = "false"
      [] op = "gt" -> ~isNullish(ruleValue) /\ lessThan(ruleValue, fieldValue) = "true"
      [] op = "gte" -> ~isNullish(ruleValue) /\ lessThan(fieldValue, ruleValue) = "false"
      [] op = "in" -> ruleValue.t = "list" /\ indexOfFinds(ruleValue, fieldValue)
      [] op = "nin" -> IF ruleValue.t = "list" THEN ~indexOfFinds(ruleValue, fieldValue) ELSE TRUE

\* What a verdict is: a boolean result, or an exception on its way up.
Verdict(b) == IF b THEN "true" ELSE "false"

Thrown == "throw"

\* A caller's handler in customOperations: one that accepts everything, one
\* that rejects everything, one that throws.
customOperation(kind, fieldValue, ruleValue) ==
    CASE kind = "accepts" -> "true"
      [] kind = "rejects" -> "false"
      [] OTHER -> Thrown

\* customOperations[rule.op] || defaultOperations[rule.op]: <<>> when neither
resolveHandler(op, customOperations) ==
    IF op \in DOMAIN customOperations THEN <<[custom |-> TRUE, kind |-> customOperations[op]]>>
    ELSE IF op \in BuiltinOps THEN <<[custom |-> FALSE, kind |-> op]>>
    ELSE <<>>

\* operationHandler(fieldValue, rule.value)
callHandler(handler, fieldValue, ruleValue) ==
    IF handler.custom THEN customOperation(handler.kind, fieldValue, ruleValue)
    ELSE Verdict(builtinOperation(handler.kind, fieldValue, ruleValue))

\* ------------------------------------------------------------------ the evaluation engine: evaluation

\* fieldExtractors[rule.field](item): an extractor made by
\* commonFieldExtractors.nested(path)
extractField(path, item) == getFieldValue(item, path)

\* Mutant: only null counts, undefined goes on to the handlers.
valueIsNull(value) == value.t = "null"

\* client-executor.ts:78  rule.value === null || rule.value === undefined
valueIsNullish(value) == isNullish(value)

\* client-executor.ts:79  rule.op === 'eq' ? fieldValue == null : fieldValue != null
nullRule(op, fieldValue) ==
    IF op = "eq" THEN Verdict(isNullish(fieldValue)) ELSE Verdict(~isNullish(fieldValue))

\* Mutant: a rule of an unknown operator passes.
unknownOperationPasses == "true"

\* client-executor.ts:85-88  if (!operationHandler) return false
unknownOperation == "false"

\* Mutant: no catch, the handler's exception goes up.
handlerUncaught(verdict) == verdict

\* client-executor.ts:90-95  try { return handler(...) } catch { return false }
handlerCaught(verdict) == IF verdict = Thrown THEN "false" ELSE verdict

\* client-executor.ts evaluateRule
evaluateRule(item, rule, config) ==
    LET fieldValue == IF rule.field \in DOMAIN config.fieldExtractors
                      THEN extractField(config.fieldExtractors[rule.field], item)
                      ELSE getFieldValue(item, rule.field)
        handler == resolveHandler(rule.op, config.customOperations)
    IN IF valueIsNullish(rule.value) THEN nullRule(rule.op, fieldValue)
       ELSE IF handler = <<>> THEN unknownOperation
       ELSE handlerCaught(callHandler(handler[1], fieldValue, rule.value))

\* Mutant: a group of an unknown combinator passes.
unknownCombinatorPasses == "true"

\* client-executor.ts:112-113  console.warn(...); return false
unknownCombinator == "false"

RECURSIVE evaluateNode(_, _, _)
RECURSIVE evaluateGroup(_, _, _)
RECURSIVE every(_, _, _)
RECURSIVE some(_, _, _)

\* children.every(child => evaluateNode(item, child, config)): stops at the
\* first child that is not true
every(item, children, config) ==
    IF children = <<>> THEN "true"
    ELSE LET verdict == evaluateNode(item, Head(children), config)
         IN IF verdict = "true" THEN every(item, Tail(children), config) ELSE verdict

\* children.some(child => evaluateNode(item, child, config)): stops at the
\* first child that is not false
some(item, children, config) ==
    IF children = <<>> THEN "false"
    ELSE LET verdict == evaluateNode(item, Head(children), config)
         IN IF verdict = "false" THEN some(item, Tail(children), config) ELSE verdict

\* client-executor.ts evaluateGroup
evaluateGroup(item, group, config) ==
    IF Len(group.children) = 0 THEN "true"
    ELSE IF group.combinator = "and" THEN every(item, group.children, config)
    ELSE IF group.combinator = "or" THEN some(item, group.children, config)
    ELSE unknownCombinator

\* client-executor.ts evaluateNode
evaluateNode(item, node, config) ==
    IF "children" \in DOMAIN node THEN evaluateGroup(item, node, config)
    ELSE evaluateRule(item, node, config)

RECURSIVE filterItems(_, _, _)
\* data.filter(item => evaluateGroup(item, ast, config)): the items kept, or
\* the exception of the first evaluation that throws
filterItems(items, ast, config) ==
    IF items = <<>> THEN [threw |-> FALSE, items |-> <<>>]
    ELSE LET verdict == evaluateGroup(Head(items), ast, config)
             rest == filterItems(Tail(items), ast, config)
         IN IF verdict = Thrown \/ rest.threw THEN [threw |-> TRUE, items |-> <<>>]
            ELSE [threw |-> FALSE,
                  items |-> (IF verdict = "true" THEN <<Head(items)>> ELSE <<>>) \o rest.items]

\* client-executor.ts:151-153  if (ast.children.length === 0) return data
returnsData(ast) == Len(ast.children) = 0

\* ------------------------------------------------------------------ the evaluation engine: inputs

\* The items of a data collection: unlike, so that a result tells which items
\* it kept.
ItemSet ==
    { Obj([age |-> Num(1), name |-> Str("Ab")]),
      Obj([age |-> Null]),
      Obj([user |-> Obj([age |-> Num(2)])]) }

\* The data collections: up to MaxItems items.
DataInputs == UNION {[1..n -> ItemSet] : n \in 0..MaxItems}

\* ClientExecutorConfig: customOperations by handler kind, fieldExtractors by
\* the path of a nested extractor.
EvalConfigs ==
    { [customOperations |-> ops, fieldExtractors |-> extractors] :
        ops \in {NoEntries, [boom |-> "throws", eq |-> "accepts"], [gt |-> "throws"]},
        extractors \in {NoEntries, [age |-> "user.age"]} }

EvalRule(field, op, value) ==
    [id |-> 2, field |-> field, op |-> op, value |-> value, component |-> "text"]

EvalGroup(combinator, children) ==
    [id |-> 1, combinator |-> combinator, children |-> children]

\* Rules: null and undefined values under known and unknown operators,
\* unknown and caller-defined operators with a value, nested and plain fields.
EvalRules ==
    { EvalRule("age", "eq", Null), EvalRule("age", "gt", Null),
      EvalRule("age", "bogus", Null), EvalRule("age", "eq", Undefined),
      EvalRule("age", "lt", Undefined), EvalRule("age", "bogus", Num(1)),
      EvalRule("age", "gt", Num(1)), EvalRule("age", "boom", Num(1)),
      EvalRule("name", "contains", Str("a")), EvalRule("user.age", "eq", Num(2)),
      EvalRule("age", "in", List(<<Num(1)>>)) }

\* The combinators: those of the Group type, and one that is none of them.
Combinators == {"and", "or", "xor"}

InnerRules == {EvalRule("age", "gt", Num(1)), EvalRule("age", "eq", Null)}

\* Groups of up to two rules.
InnerGroups ==
    { EvalGroup(c, kids) :
        c \in Combinators,
        kids \in {<<>>} \cup {<<r>> : r \in InnerRules}
                   \cup {<<r, q>> : r \in InnerRules, q \in InnerRules} }

\* Groups of a group.
DeepGroups ==
    { EvalGroup(c, <<EvalGroup(d, <<EvalRule("age", "gt", Num(1))>>)>>) :
        c \in {"and", "xor"}, d \in {"or", "xor"} }

EvalNodes == EvalRules \cup InnerGroups \cup DeepGroups

SecondNodes ==
    { EvalRule("age", "eq", Null), EvalRule("age", "boom", Num(1)), EvalGroup("or", <<>>) }

\* The ASTs handed to the executor: a root of any combinator with no child,
\* one child, or two.
EvalAsts ==
    { EvalGroup(c, kids) :
        c \in Combinators,
        kids \in {<<>>} \cup {<<n>> : n \in EvalNodes}
                   \cup {<<n, m>> : n \in EvalNodes, m \in SecondNodes} }

\* The item a caller pushes onto a collection it was handed.
PushedItem == Obj([pushed |-> Num(1)])

\* ------------------------------------------------------------------ the evaluation engine: actions

\* createClientExecutor(data, config): nothing called yet.
EvalInit ==
    /\ \E items \in DataInputs : data = [given |-> items, items |-> items]
    /\ evalConfig \in EvalConfigs
    /\ run = [status |-> "idle"]
    /\ PipeParked
    /\ StoreParked

\* The executor is called with an AST: it returns the data array itself, or
\* the array that filter allocated, or rejects with what an evaluation threw.
Execute ==
    /\ run.status = "idle"
    /\ \E ast \in EvalAsts :
          LET kept == filterItems(data.items, ast, evalConfig)
          IN run' = IF returnsData(ast)
                    THEN [status |-> "resolved", ast |-> ast, isData |-> TRUE,
                          items |-> <<>>, pushed |-> FALSE]
                    ELSE IF kept.threw
                    THEN [status |-> "rejected", ast |-> ast, isData |-> FALSE,
                          items |-> <<>>, pushed |-> FALSE]
                    ELSE [status |-> "resolved", ast |-> ast, isData |-> FALSE,
                          items |-> kept.items, pushed |-> FALSE]
    /\ UNCHANGED <<data, evalConfig, pipeVars, storeVars>>

\* The caller pushes an item onto the collection the executor resolved with:
\* onto the data array when that is what it was handed.
PushOntoResult ==
    /\ run.status = "resolved" /\ ~run.pushed
    /\ IF run.isData
       THEN /\ data' = [data EXCEPT !.items = Append(@, PushedItem)]
            /\ run' = [run EXCEPT !.pushed = TRUE]
       ELSE /\ run' = [run EXCEPT !.items = Append(@, PushedItem), !.pushed = TRUE]
            /\ UNCHANGED data
    /\ UNCHANGED <<evalConfig, pipeVars, storeVars>>

EvalNext == Execute \/ PushOntoResult

SpecEval == EvalInit /\ [][EvalNext]_vars

\* ------------------------------------------------------------------ claims: the tree store

RECURSIVE allIds(_)
\* The ids of the nodes of a forest, in pre-order.
allIds(nodes) ==
    IF nodes = <<>> THEN <<>>
    ELSE <<Head(nodes).id>>
            \o (IF IsGroup(Head(nodes)) THEN allIds(Head(nodes).children) ELSE <<>>)
            \o allIds(Tail(nodes))

TreeIds == allIds(<<tree>>)

\* C10: in every state the store can reach from an empty or config-synthesized
\* root, the ids of all nodes of the tree, the root's included, are pairwise
\* distinct.
C10_UniqueIds ==
    \A a, b \in 1..Len(TreeIds) : a # b => TreeIds[a] # TreeIds[b]

\* ------------------------------------------------------------------ claims: operations of the tree store

\* The tree the last operation was called on.
Before == last.before

BeforeIds == allIds(<<Before>>)

Adds == {"addRule", "addGroup"}

Updates == {"updateRule", "updateGroup"}

Removes == {"removeRule", "removeGroup", "removeNode"}

\* The id argument of the last update or removal.
TargetId == last.args[1]

\* The parentId argument of the last addition, <<>> when none was given.
ParentArg == last.args[2]

\* The node the last addition built: the fresh id over the caller's fields.
NewNode == [id |-> nextId] @@ last.args[1]

RECURSIVE IsSubseq(_, _)
\* a can be had from b by leaving elements out.
IsSubseq(a, b) ==
    IF a = <<>> THEN TRUE
    ELSE IF b = <<>> THEN FALSE
    ELSE IF Head(a) = Head(b) THEN IsSubseq(Tail(a), Tail(b))
    ELSE IsSubseq(a, Tail(b))

\* C11: a node keeps its id: after an addition the ids of the earlier nodes
\* are, in pre-order, the ids of the tree without the new node; after an
\* update or a removal the ids of the nodes that remain are the ids they had.
C11_IdsImmutable ==
    CASE last.op \in Adds -> IsSubseq(BeforeIds, TreeIds)
      [] last.op \in Updates \cup Removes -> IsSubseq(TreeIds, BeforeIds)
      [] OTHER -> TRUE

\* The ids of the groups of the tree the last operation was called on, the
\* root's included.
BeforeGroupIds ==
    LET groups == collectGroups(<<Before>>) IN {groups[k].id : k \in 1..Len(groups)}

RECURSIVE withChildUnder(_, _, _)
\* The node, with newNode as the last child of the group of id groupId in it.
withChildUnder(node, groupId, newNode) ==
    IF IsRule(node) THEN node
    ELSE LET kids == [k \in 1..Len(node.children) |->
                        withChildUnder(node.children[k], groupId, newNode)]
         IN [node EXCEPT !.children = IF node.id = groupId THEN Append(kids, newNode) ELSE kids]

\* C12: an addition under a parentId that is the id of no group of the tree
\* throws, and leaves the tree as it was.
C12_ParentNotFound ==
    (last.op \in Adds /\ ParentArg # <<>> /\ ParentArg[1] \notin BeforeGroupIds)
        => (last.threw /\ tree = Before)

\* C13: an addition under a parentId that is the id of a group of the tree,
\* the root included, does not throw, returns the new id, and changes the tree
\* in one way only: the new node is the last child of that group.
C13_AddUnderParent ==
    (last.op \in Adds /\ ParentArg # <<>> /\ ParentArg[1] \in BeforeGroupIds)
        => /\ ~last.threw
           /\ last.ret = <<nextId>>
           /\ tree = withChildUnder(Before, ParentArg[1], NewNode)
           /\ Len(TreeIds) = Len(BeforeIds) + 1

\* C14: addRule without parentId leaves the root and its earlier children as
\* they were, puts the new rule after them, returns the new rule's id, and
\* getNode of that id is the new rule.
C14_AddRuleAtRoot ==
    (last.op = "addRule" /\ ParentArg = <<>>)
        => /\ tree = [Before EXCEPT !.children = Append(@, NewNode)]
           /\ last.ret = <<nextId>>
           /\ getNode(nextId) = <<NewNode>>

\* The elements of a sequence.
Range(seq) == {seq[k] : k \in 1..Len(seq)}

\* A node without its children.
Own(node) == [k \in DOMAIN node \ {"children"} |-> node[k]]

RECURSIVE flatten(_, _)
\* The nodes of a forest in pre-order, each with its depth: two forests are
\* the same tree structure with the same nodes exactly when these are equal.
flatten(nodes, depth) ==
    IF nodes = <<>> THEN <<>>
    ELSE <<[depth |-> depth, isGroup |-> IsGroup(Head(nodes)), own |-> Own(Head(nodes))]>>
            \o (IF IsGroup(Head(nodes)) THEN flatten(Head(nodes).children, depth + 1) ELSE <<>>)
            \o flatten(Tail(nodes), depth)

\* The update function of the last removal.
LastRemoveFn == IF last.op = "removeNode" THEN [kind |-> "removeNode"] ELSE removeFn(last.op)

\* C15: a removal by an id that no node of the tree has leaves the tree as it
\* was and does not throw; and the same removal applied once more to the tree
\* that any removal left changes nothing.
C15_RemoveAbsent ==
    last.op \in Removes =>
        /\ TargetId \notin Range(BeforeIds) => (tree = Before /\ ~last.threw)
        /\ updateTree(tree.children, TargetId, LastRemoveFn) = tree.children

\* C15 witness: removeGroup by an id of no node, on a tree that holds a rule
\* and a group, left the tree as it was.
C15_Witness ==
    /\ last.op = "removeGroup"
    /\ TargetId \notin Range(BeforeIds)
    /\ \E k \in 1..Len(Before.children) : IsGroup(Before.children[k])
    /\ collectRules(Before.children) # <<>>
    /\ tree = Before

\* C16: removeGroup or removeNode by the id of a non-root group G leaves no
\* node of G's subtree (getAllRules and getAllGroups hold none of their ids,
\* hasNode is false for each) and leaves every other node in place, unchanged.
C16_RemoveGroupCascades ==
    (last.op \in {"removeGroup", "removeNode"} /\ findGroupById(TargetId, Before.children) # <<>>)
        => LET G == findGroupById(TargetId, Before.children)[1]
               gone == allIds(<<G>>)
               rules == collectRules(tree.children)
               groups == collectGroups(tree.children)
           IN /\ \A id \in Range(gone) :
                    /\ \A k \in 1..Len(rules) : rules[k].id # id
                    /\ \A k \in 1..Len(groups) : groups[k].id # id
                    /\ ~hasNode(id)
              /\ Len(TreeIds) = Len(BeforeIds) - Len(gone)
              /\ Own(tree) = Own(Before)
              /\ IsSubseq(flatten(tree.children, 1), flatten(Before.children, 1))

\* The children of a group after the last operation, without the node an
\* addition put last.
WithoutNew(children) ==
    IF last.op \in Adds /\ children # <<>> /\ children[Len(children)].id = nextId
    THEN SubSeq(children, 1, Len(children) - 1)
    ELSE children

\* Node a, after the last operation, is node b before it: same kind and same
\* id, or the id an update just merged into b.
SameNode(a, b) ==
    /\ IsGroup(a) = IsGroup(b)
    /\ \/ a.id = b.id
       \/ /\ last.op \in Updates
          /\ b.id = TargetId
          /\ "id" \in DOMAIN last.args[2]
          /\ a.id = last.args[2].id

RECURSIVE OrderKept(_, _)
RECURSIVE Embeds(_, _)
\* The children after the operation, the new node apart, are children from
\* before it in the order they had, and so on inside each group that stayed.
OrderKept(after, before) == Embeds(WithoutNew(after), before)

\* Each node of after is, in turn, a later node of before.
Embeds(after, before) ==
    IF after = <<>> THEN TRUE
    ELSE IF before = <<>> THEN FALSE
    ELSE IF /\ SameNode(Head(after), Head(before))
            /\ IsGroup(Head(after)) => OrderKept(Head(after).children, Head(before).children)
         THEN Embeds(Tail(after), Tail(before))
         ELSE Embeds(after, Tail(before))

Resolved == findNodeById(TargetId, Before.children)

\* C18: updateRule by the id of a group and updateGroup by the id of a rule
\* leave the tree as it was; updateRule by the id of a rule gives that one
\* rule the fields of the partial and changes nothing else.
C18_UpdateFrame ==
    (last.op \in Updates /\ Resolved # <<>>) =>
        LET node == Resolved[1]
            partial == last.args[2]
            fb == flatten(Before.children, 1)
            fa == flatten(tree.children, 1)
        IN CASE last.op = "updateRule" /\ IsGroup(node) -> tree = Before
             [] last.op = "updateGroup" /\ IsRule(node) -> tree = Before
             [] last.op = "updateRule" /\ IsRule(node) ->
                   /\ Own(tree) = Own(Before)
                   /\ \E k \in 1..Len(fb) :
                         /\ fb[k].own = node
                         /\ fa = [fb EXCEPT ![k].own = partial @@ node]
             [] OTHER -> TRUE

\* The shape of a forest: depth, kind and id of each node, in pre-order.
Skeleton(nodes) ==
    LET f == flatten(nodes, 1)
    IN [k \in 1..Len(f) |-> [depth |-> f[k].depth, isGroup |-> f[k].isGroup, id |-> f[k].own.id]]

\* C19: updateGroup leaves every group with the id and the sequence of
\* children it had: the tree has the same nodes, of the same ids, in the same
\* places as before.
C19_UpdateGroupFrame ==
    last.op = "updateGroup" => Skeleton(tree.children) = Skeleton(Before.children)

\* ------------------------------------------------------------------ claims: lookup

RECURSIVE allNodes(_)
\* The nodes of a forest, in pre-order.
allNodes(nodes) ==
    IF nodes = <<>> THEN <<>>
    ELSE <<Head(nodes)>>
            \o (IF IsGroup(Head(nodes)) THEN allNodes(Head(nodes).children) ELSE <<>>)
            \o allNodes(Tail(nodes))

\* The nodes of the tree, the root included.
TreeNodes == Range(allNodes(<<tree>>))

\* C20: getNode returns the node of the given id for every node of the tree,
\* the root included, and null for an id of no node; hasNode tells whether the
\* id is the id of a node; getGroup returns the node when it is a group, and
\* null otherwise.
C20_LookupWholeTree ==
    last.op \in {"getNode", "getGroup", "hasNode"} =>
        LET hits == {n \in TreeNodes : n.id = TargetId}
            groupHits == {n \in hits : IsGroup(n)}
        IN CASE last.op = "getNode" ->
                   IF hits = {} THEN last.ret = <<>> ELSE \E n \in hits : last.ret = <<n>>
             [] last.op = "hasNode" -> last.ret = <<hits # {}>>
             [] last.op = "getGroup" ->
                   IF groupHits = {} THEN last.ret = <<>> ELSE \E n \in groupHits : last.ret = <<n>>

\* C21: getAllRules returns the rules of the tree, each once, in pre-order;
\* getAllGroups returns the groups of the whole tree, each once, in pre-order.
C21_FlattenWholeTree ==
    /\ last.op = "getAllRules" => last.ret = <<SelectSeq(allNodes(<<tree>>), IsRule)>>
    /\ last.op = "getAllGroups" => last.ret = <<SelectSeq(allNodes(<<tree>>), IsGroup)>>

\* ------------------------------------------------------------------ claims: nodes that share an id

\* The update function the last operation handed to updateTree.
LastFn ==
    CASE last.op = "updateRule" -> [kind |-> "mergeRule", partial |-> last.args[2]]
      [] last.op = "updateGroup" -> [kind |-> "mergeGroup", partial |-> last.args[2]]
      [] last.op \in Adds -> [kind |-> "append", node |-> NewNode]
      [] OTHER -> LastRemoveFn

\* The id the last operation was addressed to: the target of an update or a
\* removal, the parentId of an addition.
AddressedId == IF last.op \in Adds THEN ParentArg[1] ELSE TargetId

RECURSIVE firstOnly(_, _, _)
\* The forest with the update function applied to the first node of the id in
\* pre-order, left to right, and to no other: hit tells whether there is one.
firstOnly(nodes, targetId, fn) ==
    IF nodes = <<>> THEN [hit |-> FALSE, nodes |-> <<>>]
    ELSE LET node == Head(nodes)
             inner == IF IsGroup(node) /\ node.id # targetId
                      THEN firstOnly(node.children, targetId, fn)
                      ELSE [hit |-> FALSE, nodes |-> <<>>]
             rest == firstOnly(Tail(nodes), targetId, fn)
         IN IF node.id = targetId
            THEN [hit |-> TRUE,
                  nodes |-> SelectSeq(<<applyUpdate(fn, node)>>, notNull) \o Tail(nodes)]
            ELSE IF inner.hit
            THEN [hit |-> TRUE,
                  nodes |-> <<[node EXCEPT !.children = inner.nodes]>> \o Tail(nodes)]
            ELSE [hit |-> rest.hit, nodes |-> <<node>> \o rest.nodes]

\* C22: when two or more nodes below the root carry the id an update, a
\* removal or an addition under a parent is addressed to, the operation acts
\* on the first of them in pre-order and leaves the others untouched.
C22_FirstMatchOnly ==
    (/\ last.op \in Updates \cup Removes \cup Adds
     /\ last.op \in Adds => (ParentArg # <<>> /\ ~last.threw)
     /\ Cardinality({k \in 1..Len(allIds(Before.children)) :
                        allIds(Before.children)[k] = AddressedId}) >= 2)
        => tree.children = firstOnly(Before.children, AddressedId, LastFn).nodes

\* ------------------------------------------------------------------ claims: one contract

\* What the last operation, called with the same arguments on the same tree
\* with the same generated id, does in a given store.
Replayed(store) ==
    LET added == addChildIn(store, Before.children, NewNode, ParentArg)
        removal == IF last.op = "removeNode" THEN [kind |-> "removeNode"]
                   ELSE removeFnIn(store, last.op)
    IN CASE last.op \in Adds ->
               [tree |-> [Before EXCEPT !.children = added.children],
                threw |-> added.threw,
                ret |-> addReturnsIn(store, nextId, added.threw)]
         [] last.op \in Updates ->
               [tree |-> [Before EXCEPT !.children = updateTree(@, TargetId, LastFn)],
                threw |-> FALSE, ret |-> <<>>]
         [] last.op \in Removes ->
               [tree |-> [Before EXCEPT !.children = updateTree(@, TargetId, removal)],
                threw |-> FALSE, ret |-> <<>>]

\* C23: whatever store ran the last operation, each of the three stores,
\* called the same way on the same tree, ends in the same tree with the same
\* outcome (returned id, error, or nothing).
C23_OneContract ==
    last.op \in Adds \cup Updates \cup Removes =>
        \A store \in Stores :
            Replayed(store) = [tree |-> tree, threw |-> last.threw, ret |-> last.ret]

\* ------------------------------------------------------------------ claims: the evaluation engine

\* The executor has been called and the caller has not touched the result.
Executed == run.status \in {"resolved", "rejected"} /\ ~run.pushed

\* The items the executor was called on.
GivenItems == Range(data.given)

\* The groups and the rules of the AST of the call, the root included, at
\* every depth.
AstGroups == {n \in Range(allNodes(<<run.ast>>)) : IsGroup(n)}

AstRules == {n \in Range(allNodes(<<run.ast>>)) : IsRule(n)}

\* The reference function of a group, over the verdicts of its children.
RefGroup(item, group) ==
    LET childTrue(k) == evaluateNode(item, group.children[k], evalConfig) = "true"
    IN IF group.children = <<>> THEN TRUE
       ELSE IF group.combinator = "and" THEN \A k \in 1..Len(group.children) : childTrue(k)
       ELSE IF group.combinator = "or" THEN \E k \in 1..Len(group.children) : childTrue(k)
       ELSE FALSE

\* C24: every group of the AST, at every depth, evaluates as the reference
\* function says (true without children; all children for and; some child
\* for or; false for another combinator), no evaluation throws, and the
\* executor resolves with the items whose root evaluates true.
C24_GroupReference ==
    Executed =>
        /\ \A item \in GivenItems : \A group \in AstGroups :
              evaluateGroup(item, group, evalConfig) = Verdict(RefGroup(item, group))
        /\ run.status = "resolved"
        /\ ~run.isData => run.items = SelectSeq(data.given, LAMBDA item : RefGroup(item, run.ast))

\* C24 witness: an or root over a group of an unknown combinator with a rule
\* in it and a second child kept some items of the data and dropped others.
C24_Witness ==
    /\ Executed /\ run.status = "resolved"
    /\ run.ast.combinator = "or" /\ Len(run.ast.children) = 2
    /\ IsGroup(run.ast.children[1])
    /\ run.ast.children[1].combinator = "xor" /\ run.ast.children[1].children # <<>>
    /\ run.items # <<>> /\ Len(run.items) < Len(data.given)

\* The field value a rule is evaluated on: what the field's extractor gives,
\* or the value at the field path.
FieldOf(item, rule) ==
    IF rule.field \in DOMAIN evalConfig.fieldExtractors
    THEN extractField(evalConfig.fieldExtractors[rule.field], item)
    ELSE getFieldValue(item, rule.field)

NullValued(rule) == rule.value \in {Null, Undefined}

\* The root of the call is an and over this one rule.
OnlyRule(rule) == run.ast.combinator = "and" /\ run.ast.children = <<rule>>

\* C25: a rule whose value is null or undefined is true, under eq, exactly
\* when the extracted field value is null or undefined and, under every other
\* operator, known or not, exactly when it is neither; no handler, custom or
\* built-in, has a say.
C25_NullValueRule ==
    Executed =>
        \A rule \in {r \in AstRules : NullValued(r)} :
            /\ \A item \in GivenItems :
                  evaluateRule(item, rule, evalConfig)
                      = Verdict((rule.op = "eq") <=> isNullish(FieldOf(item, rule)))
            /\ OnlyRule(rule) =>
                  /\ run.status = "resolved"
                  /\ run.items = SelectSeq(data.given,
                        LAMBDA item : (rule.op = "eq") <=> isNullish(FieldOf(item, rule)))

\* C25 witness: an eq rule of value undefined, under a caller's eq handler
\* that accepts everything, kept the items without the field and dropped one
\* that has it.
C25_Witness ==
    /\ Executed /\ run.status = "resolved"
    /\ OnlyRule(EvalRule("age", "eq", Undefined))
    /\ "eq" \in DOMAIN evalConfig.customOperations
    /\ run.items # <<>> /\ Len(run.items) < Len(data.given)

\* The rule's operator is neither a caller's nor a built-in one.
Unresolved(rule) == resolveHandler(rule.op, evalConfig.customOperations) = <<>>

\* C26, as stated: a rule whose operator resolves to no handler is false for
\* every item and every rule value, and the evaluation of the tree around it
\* goes on without an error.
C26_UnknownOpFalse ==
    Executed =>
        \A rule \in {r \in AstRules : Unresolved(r)} :
            /\ \A item \in GivenItems : evaluateRule(item, rule, evalConfig) = "false"
            /\ run.status = "resolved"

\* C26, amended: a rule whose operator resolves to no handler is false for
\* every item and every rule value other than null and undefined, and the
\* evaluation of the tree around it goes on without an error: alone under an
\* and root the rule keeps no item, and beside a second child under an or
\* root the result is what the second child keeps.
C26_UnknownOpFalseUnlessNull ==
    Executed =>
        \A rule \in {r \in AstRules : Unresolved(r) /\ ~NullValued(r)} :
            /\ \A item \in GivenItems : evaluateRule(item, rule, evalConfig) = "false"
            /\ run.status = "resolved"
            /\ OnlyRule(rule) => run.items = <<>>
            /\ \A second \in SecondNodes :
                  run.ast = EvalGroup("or", <<rule, second>>) =>
                      run.items = SelectSeq(data.given,
                          LAMBDA item : evaluateNode(item, second, evalConfig) = "true")

\* C26 witness: under an or root, a rule of the unknown operator bogus with a
\* number for a value stands before a second child, and the executor kept
\* some items and dropped others.
C26_Witness ==
    /\ Executed /\ run.status = "resolved"
    /\ run.ast.combinator = "or" /\ Len(run.ast.children) = 2
    /\ run.ast.children[1] = EvalRule("age", "bogus", Num(1))
    /\ Unresolved(run.ast.children[1])
    /\ run.items # <<>> /\ Len(run.items) < Len(data.given)

OrderedOps == {"lt", "lte", "gt", "gte"}

HandlerThrows(item, rule) ==
    /\ ~NullValued(rule)
    /\ IF rule.op \in DOMAIN evalConfig.customOperations
       THEN customOperation(evalConfig.customOperations[rule.op],
                            FieldOf(item, rule), rule.value) = Thrown
       ELSE /\ rule.op \in BuiltinOps
            /\ Verdict(builtinOperation(rule.op, FieldOf(item, rule), rule.value)) = Thrown

ThrowsOnAll(rule) == \A item \in GivenItems : HandlerThrows(item, rule)

\* C28: a rule whose handler throws is false, and the failure stays inside
\* the rule: the executor resolves, alone under an and root the rule keeps no
\* item, and beside a second child under an or root the result is what the
\* second child keeps, over all the items of the data.
C28_ThrowingHandlerFalse ==
    Executed =>
        /\ \A rule \in AstRules : \A item \in GivenItems :
              HandlerThrows(item, rule) => evaluateRule(item, rule, evalConfig) = "false"
        /\ run.status = "resolved"
        /\ \A rule \in {r \in AstRules : ThrowsOnAll(r)} :
              /\ OnlyRule(rule) => run.items = <<>>
              /\ \A second \in SecondNodes :
                    run.ast = EvalGroup("or", <<rule, second>>) =>
                        run.items = SelectSeq(data.given,
                            LAMBDA item : evaluateNode(item, second, evalConfig) = "true")

\* C28 witness: the caller's gt handler, which throws, stands in for the
\* built-in gt in the first child of an or root; the data has two items, and
\* the executor kept one for the second child and dropped the other.
C28_Witness ==
    /\ Executed /\ run.status = "resolved"
    /\ "gt" \in DOMAIN evalConfig.customOperations
    /\ run.ast.combinator = "or" /\ Len(run.ast.children) = 2
    /\ run.ast.children[1] = EvalRule("age", "gt", Num(1))
    /\ \E item \in GivenItems : HandlerThrows(item, run.ast.children[1])
    /\ Len(data.given) = 2 /\ Len(run.items) = 1

\* C29: the executor resolves with a collection of its own, never with the
\* data collection itself, and the data stays what it was given, also after
\* the caller has changed the collection it was handed.
C29_ResultNotData ==
    /\ run.status = "resolved" => ~run.isData
    /\ data.items = data.given

\* ------------------------------------------------------------------ claims: seeding

\* createInitialFilterState has returned.
Seeded == last.op = "createInitialFilterState"

SeedConfig == last.args[1]

\* The first entry of a table of operations for a component, if there is one.
HasFirst(table, component) == component \in DOMAIN table /\ Len(table[component]) > 0

\* The op the precedence picks for a field: the field's defaultOp, else the
\* first of the configuration's operations for the component, else the first
\* of the built-in ones, else eq.
PrecedenceOp(field, config) ==
    CASE "defaultOp" \in DOMAIN field -> field.defaultOp
      [] "defaultOp" \notin DOMAIN field
         /\ "defaultOperations" \in DOMAIN config
         /\ HasFirst(config.defaultOperations, field.component)
           -> config.defaultOperations[field.component][1]
      [] "defaultOp" \notin DOMAIN field
         /\ ~("defaultOperations" \in DOMAIN config
              /\ HasFirst(config.defaultOperations, field.component))
         /\ HasFirst(defaultOperations, field.component)
           -> defaultOperations[field.component][1]
      [] OTHER -> "eq"

\* C30: the op of each synthesized rule is the field's defaultOp if set,
\* else the first entry of config.defaultOperations for the component if
\* present, else the first entry of the built-in table for the component if
\* present, else eq.
C30_DefaultOpPrecedence ==
    Seeded =>
        /\ Len(tree.children) = Len(SeedConfig.fields)
        /\ \A k \in 1..Len(tree.children) :
              tree.children[k].op = PrecedenceOp(SeedConfig.fields[k], SeedConfig)

\* C30 witness: of two text fields under a configuration whose first text
\* operation is contains, the one with a defaultOp got it and the one without
\* got contains, not the built-in eq.
C30_Witness ==
    /\ Seeded /\ Len(tree.children) = 2
    /\ "defaultOperations" \in DOMAIN SeedConfig
    /\ tree.children[1].component = "text" /\ tree.children[2].component = "text"
    /\ "defaultOp" \in DOMAIN SeedConfig.fields[1] /\ tree.children[1].op = "gt"
    /\ "defaultOp" \notin DOMAIN SeedConfig.fields[2] /\ tree.children[2].op = "contains"

\* C31: createInitialFilterState returns a root group of combinator and
\* whose children are one rule per configured field, in the order of the
\* fields, each with the name and the component of its field and with an
\* empty list for a value under multiselect and null otherwise; the one field
\* age of component number gives one rule of op eq, value null, component
\* number.
C31_OneRulePerField ==
    Seeded =>
        /\ last.ret = <<tree>>
        /\ IsGroup(tree) /\ tree.combinator = "and"
        /\ Len(tree.children) = Len(SeedConfig.fields)
        /\ \A k \in 1..Len(tree.children) :
              LET rule == tree.children[k]
                  field == SeedConfig.fields[k]
              IN /\ IsRule(rule)
                 /\ rule.field = field.field
                 /\ rule.component = field.component
                 /\ rule.value = (IF field.component = "multiselect" THEN EmptyList ELSE Null)
        /\ SeedConfig.fields = <<[field |-> "age", component |-> "number"]>>
           /\ "defaultOperations" \notin DOMAIN SeedConfig
              => /\ Len(tree.children) = 1
                 /\ tree.children[1].op = "eq"
                 /\ tree.children[1].value = Null
                 /\ tree.children[1].component = "number"

\* C31 witness: a multiselect field and then a number field gave a rule
\* with an empty list and then a rule with null.
C31_Witness ==
    /\ Seeded /\ Len(tree.children) = 2
    /\ tree.children[1].component = "multiselect" /\ tree.children[1].value = EmptyList
    /\ tree.children[1].field = "tags"
    /\ tree.children[2].component = "number" /\ tree.children[2].value = Null
    /\ tree.children[2].field = "age"

\* C37: for every field that lists its own operations, the op of the rule
\* synthesized for it is one of them.
C37_OpAmongAllowed ==
    Seeded =>
        \A k \in 1..Len(SeedConfig.fields) :
            LET field == SeedConfig.fields[k]
            IN "operations" \in DOMAIN field /\ field.operations # <<>>
                  => tree.children[k].op \in Range(field.operations)

\* ------------------------------------------------------------------ claims: the tree store, removal and the root

\* The nodes of the tree before the call that carry the id of the call.
Addressed == {n \in Range(allNodes(Before.children)) : n.id = TargetId}

\* C35: removeRule removes a node only when the id is that of a rule, and
\* removeGroup only when it is that of a group: removeRule by the id of a
\* group and removeGroup by the id of a rule leave the tree unchanged.
C35_RemovalByKind ==
    /\ (last.op = "removeRule" /\ \A n \in Addressed : IsGroup(n)) => tree = Before
    /\ (last.op = "removeGroup" /\ \A n \in Addressed : IsRule(n)) => tree = Before

\* C36: after every operation of the store the root is a group with the id
\* and the combinator it was created with, also when the operation was called
\* with the root's own id.
C36_RootFixed ==
    /\ IsGroup(tree) /\ tree.id = 1 /\ tree.combinator = "and"
    /\ last.op \in Adds \cup Updates \cup Removes =>
          /\ tree.id = Before.id
          /\ tree.combinator = Before.combinator

\* C36 witness: updateGroup was called with the root's own id and the
\* combinator or, on a root that has children, and the root is still an and.
C36_Witness ==
    /\ last.op = "updateGroup" /\ TargetId = Before.id
    /\ last.args[2] = [combinator |-> "or"]
    /\ Before.children # <<>> /\ tree.combinator = "and"

\* ------------------------------------------------------------------ claims: the pipeline, liveness and overlap

\* The delays a call of retryMiddleware has started so far.
Delays(i) ==
    IF inv[i].stack = <<>> THEN 0
    ELSE IF Top(inv[i]).pc = "delay" THEN Top(inv[i]).attempt + 1 ELSE Top(inv[i]).attempt

\* C34: with a next whose calls settle and timers that fire, every call of
\* retryMiddleware(maxRetries, baseDelay) settles, after at most
\* maxRetries + 1 calls of next and at most maxRetries delays.
C34_RetrySettles ==
    /\ [](\A i \in Invs : /\ inv[i].calls <= stages[1].n + 1
                           /\ Delays(i) <= stages[1].n)
    /\ \A i \in Invs : (inv[i].status = "running") ~> Done(i)

\* C34 witness: with maxRetries = 1, one call is in its one delay after a
\* rejected call of next, and the other has rejected after two calls of next.
C34_Witness ==
    /\ DirectCall("retry") /\ stages[1].n = 1
    /\ inv[1].status = "running" /\ Delays(1) = 1 /\ Top(inv[1]).pc = "delay"
    /\ inv[2].status = "rejected" /\ inv[2].calls = 2

\* C32: two calls of one cacheMiddleware(storage) with the same AST, the
\* second made while the first call's next is pending: next is invoked at
\* most once in total, and when next rejects no call both calls resolve with
\* the same collection.
C32_OverlapSharesOneCall ==
    (DirectCall("cache") /\ inv[2].status # "idle" /\ inv[2].ast = inv[1].ast
        /\ 1 \notin inv[2].after) =>
        /\ inv[1].pend => inv[1].calls + inv[2].calls <= 1
        /\ (Done(1) /\ Done(2) /\ ~("err" \in Range(inv[1].settles \o inv[2].settles))) =>
              /\ inv[1].status = "resolved" /\ inv[2].status = "resolved"
              /\ inv[1].ret = inv[2].ret
              /\ inv[1].calls + inv[2].calls <= 1

\* A composed pipeline whose middleware each call next once and of which one
\* at least hands next another AST and another context.
Rewriting ==
    /\ mode = "composed"
    /\ Len(stages) >= 2
    /\ \A k \in 1..(Len(stages) - 1) : stages[k].kind \in {"once", "logging", "rewrite"}
    /\ \E k \in 1..(Len(stages) - 1) : stages[k].kind = "rewrite"

\* C33: in a composed pipeline what a middleware passes to next is
\* discarded: every middleware downstream and the terminal executor receive
\* the AST and the context that the composed callable was given.
C33_DownstreamSeesOriginal ==
    \A i \in Invs :
        /\ mode = "composed" =>
              \A k \in 1..Len(inv[i].seen) : inv[i].seen[k].arg = Args(inv[i].ast, inv[i].ctx)
        /\ (Rewriting /\ Done(i)) =>
              inv[i].seen = [k \in 1..Len(stages) |->
                                [stage |-> k - 1, arg |-> Args(inv[i].ast, inv[i].ctx)]]

====
